---- MODULE Spec2Model ----
(***************************************************************************)
(* mock-es: the bulk-ingestion handler (pkg/api/api.go).                   *)
(*                                                                         *)
(* APIHandler holds two 100-slot odds tables guarded by configMu, a set of *)
(* counters, a request-history ring and an optional deterministic decision *)
(* function.  UpdateOdds rebuilds the tables under the write lock; Bulk    *)
(* reads them under the read lock while it scans the request body.         *)
(***************************************************************************)
EXTENDS Integers, Sequences, FiniteSets, TLC

(***************************************************************************)
(* HTTP status codes used by the handler.                                  *)
(***************************************************************************)
StatusOK == 200
StatusConflict == 409
StatusTooManyRequests == 429
StatusNotAcceptable == 406
StatusRequestEntityTooLarge == 413
StatusInternalServerError == 500

\* len(h.ActionOdds) = len(h.MethodOdds): both tables are [100]int.
OddsLen == 100

Slots == 0 .. (OddsLen - 1)

\* The zero value of a [100]int field, as newAPIHandler leaves both tables.
ZeroTable == [i \in Slots |-> 0]

(***************************************************************************)
(* Machine words.  The percentages are Go uint: 64 bits, here four 16-bit  *)
(* limbs, least significant first, so that wrap-around and the conversion  *)
(* to int keep their width.                                                *)
(***************************************************************************)
LimbBase == 65536
NumLimbs == 4
SignLimb == 32768

Uint(k) == [i \in 1 .. NumLimbs |-> IF i = 1 THEN k ELSE 0]

MaxUint == [i \in 1 .. NumLimbs |-> LimbBase - 1]

\* 2^63: the smallest uint whose conversion to int is negative.
TopBit == [i \in 1 .. NumLimbs |-> IF i = NumLimbs THEN SignLimb ELSE 0]

\* The carry into limb i of a + b.
RECURSIVE Carry(_, _, _)
Carry(a, b, i) ==
    IF i = 1 THEN 0 ELSE (a[i - 1] + b[i - 1] + Carry(a, b, i - 1)) \div LimbBase

\* a + b on uint: modulo 2^64, the carry out of the top limb is dropped.
UintAdd(a, b) ==
    [i \in 1 .. NumLimbs |-> (a[i] + b[i] + Carry(a, b, i)) % LimbBase]

\* TRUE when every limb above the lowest is zero (the value is below 2^16).
IsSmall(u) == \A i \in 2 .. NumLimbs : u[i] = 0

\* int(u) > k for a small non-negative k: the conversion reinterprets the
\* bits, so a word with the top bit set is negative.
IntGreater(u, k) ==
    /\ u[NumLimbs] < SignLimb
    /\ \/ ~IsSmall(u)
       \/ u[1] > k

\* i < u for a loop counter i that is still small.
UintLess(i, u) == ~IsSmall(u) \/ i < u[1]

(***************************************************************************)
(* UpdateOdds: validation and the fill loops.                              *)
(***************************************************************************)

\* The two checks of UpdateOdds, in order: "sum" when the first rejects,
\* "toolarge" when the second does, "ok" when both pass.
ValidateOdds(d, t, n, L) ==
    IF IntGreater(UintAdd(UintAdd(d, t), n), OddsLen) THEN "sum"
    ELSE IF IntGreater(L, OddsLen) THEN "toolarge"
    ELSE "ok"

\* for i := uint(0); i < count; i++ { table[n] = code; n++ }
\* The loop writes slots n, n+1, ... one per iteration; an iteration that
\* finds n = OddsLen panics (index out of range) with every earlier slot
\* already written.  Iterations(n, count) is the number that complete.
Iterations(n, count) ==
    IF IsSmall(count) /\ count[1] <= OddsLen - n THEN count[1] ELSE OddsLen - n

FillRun(table, n, count, code) ==
    LET k == Iterations(n, count)
    IN  [table |-> [i \in Slots |-> IF n <= i /\ i < n + k THEN code
                                    ELSE table[i]],
         n |-> n + k,
         panic |-> UintLess(k, count)]

\* A fill that leaves the remainder as it was.
FillRestKeepsOld(table, n) == table

\* for ; n < len(table); n++ { table[n] = http.StatusOK }
FillRest(table, n) == [i \in Slots |-> IF i >= n THEN StatusOK ELSE table[i]]

(***************************************************************************)
(* Bounds of the model.                                                    *)
(***************************************************************************)
\* Goroutines that call UpdateOdds, and calls each one makes.
NumUpdaters == 1
MaxUpdateCalls == 1
\* Requests, each served by a goroutine of its own.
NumRequests == 2
\* Lines one bulk body delivers before the stream ends: of a request served
\* alone, and of requests served while UpdateOdds is called.
MaxLines == 3
MaxServingLines == 1

Updaters == 1 .. NumUpdaters
Requests == 1 .. NumRequests

(***************************************************************************)
(* State.                                                                  *)
(***************************************************************************)
VARIABLES
    ActionOdds,             \* h.ActionOdds
    MethodOdds,             \* h.MethodOdds
    configMu,               \* h.configMu: writer, waiting writer, readers
    deterministicHandler,   \* h.deterministicHandler: "nil" or a decision function
    metrics,                \* h.metrics: one counter per instrument
    history,                \* h.history
    historyIndex,           \* h.historyIndex
    upd,                    \* one record per goroutine calling UpdateOdds
    rq,                     \* one record per goroutine serving a request
    crashed,                \* an unrecovered panic ended the process
    configs,                \* the tables each successful UpdateOdds left
    recorded,               \* the records recordRequest stored, in order
    verbose,                \* the -v flag: the handler is wrapped for logging
    lock,                   \* uat.lock
    userAgentsSeen,         \* uat.userAgentsSeen: references to three maps
    heap,                   \* the maps allocated, by reference
    tr                      \* one record per goroutine calling the tracker

\* The variables of the UserAgentTracker.
tracker == << lock, userAgentsSeen, heap, tr >>

\* The variables of the APIHandler and of the program around it.
handler ==
    << ActionOdds, MethodOdds, configMu, deterministicHandler, metrics,
       history, historyIndex, upd, rq, crashed, configs, recorded, verbose >>

vars ==
    << ActionOdds, MethodOdds, configMu, deterministicHandler, metrics,
       history, historyIndex, upd, rq, crashed, configs, recorded, verbose,
       tracker >>

(***************************************************************************)
(* sync.RWMutex as configMu uses it.  Lock first announces the writer,     *)
(* which holds off every later RLock, then waits for the readers present   *)
(* to leave.                                                               *)
(***************************************************************************)
NoOne == 0

MuFree == [writer |-> NoOne, waiting |-> NoOne, readers |-> {}]

CanAnnounce(mu) == mu.writer = NoOne /\ mu.waiting = NoOne

Announce(mu, u) == [mu EXCEPT !.waiting = u]

CanLock(mu, u) == mu.waiting = u /\ mu.readers = {}

Lock(mu, u) == [mu EXCEPT !.writer = u, !.waiting = NoOne]

Unlock(mu) == [mu EXCEPT !.writer = NoOne]

\* An RLock that does not wait for a writer.
CanRLockIgnoresWriter(mu) == TRUE

CanRLock(mu) == mu.writer = NoOne /\ mu.waiting = NoOne

RLock(mu, r) == [mu EXCEPT !.readers = @ \cup {r}]

RUnlock(mu, r) == [mu EXCEPT !.readers = @ \ {r}]

(***************************************************************************)
(* UpdateOdds, one action per lock operation, check and fill loop.         *)
(***************************************************************************)
UpdIdle ==
    [ pc |-> "idle", calls |-> 0, n |-> 0, ret |-> "none",
      percentDuplicate |-> Uint(0), percentTooMany |-> Uint(0),
      percentNonIndex |-> Uint(0), percentTooLarge |-> Uint(0),
      before |-> << ZeroTable, ZeroTable >> ]

\* A caller invokes h.UpdateOdds(d, t, n, L).
UpdateOddsCall(u, Args) ==
    /\ ~crashed
    /\ upd[u].pc \in {"idle", "done"}
    /\ upd[u].calls < MaxUpdateCalls
    /\ \E a \in Args :
          upd' = [upd EXCEPT ![u] =
                    [@ EXCEPT !.pc = "lock", !.calls = @ + 1, !.ret = "none",
                              !.n = 0,
                              !.percentDuplicate = a[1], !.percentTooMany = a[2],
                              !.percentNonIndex = a[3], !.percentTooLarge = a[4]]]
    /\ UNCHANGED << ActionOdds, MethodOdds, configMu, deterministicHandler,
                    metrics, history, historyIndex, rq, crashed, configs >>
    /\ UNCHANGED << recorded, verbose, tracker >>

\* h.configMu.Lock(): the writer announces itself.
UpdateOddsLock(u) ==
    /\ ~crashed
    /\ upd[u].pc = "lock"
    /\ CanAnnounce(configMu)
    /\ configMu' = Announce(configMu, u)
    /\ upd' = [upd EXCEPT ![u].pc = "wait"]
    /\ UNCHANGED << ActionOdds, MethodOdds, deterministicHandler, metrics,
                    history, historyIndex, rq, crashed, configs >>
    /\ UNCHANGED << recorded, verbose, tracker >>

\* h.configMu.Lock() returns once no reader is left.
UpdateOddsAcquire(u) ==
    /\ ~crashed
    /\ upd[u].pc = "wait"
    /\ CanLock(configMu, u)
    /\ configMu' = Lock(configMu, u)
    /\ upd' = [upd EXCEPT ![u].pc = "check",
                          ![u].before = << ActionOdds, MethodOdds >>]
    /\ UNCHANGED << ActionOdds, MethodOdds, deterministicHandler, metrics,
                    history, historyIndex, rq, crashed, configs >>
    /\ UNCHANGED << recorded, verbose, tracker >>

\* The two validations; a rejected call returns the error and unlocks.
UpdateOddsCheck(u) ==
    /\ ~crashed
    /\ upd[u].pc = "check"
    /\ LET v == ValidateOdds(upd[u].percentDuplicate, upd[u].percentTooMany,
                             upd[u].percentNonIndex, upd[u].percentTooLarge)
       IN  IF v = "ok"
           THEN /\ upd' = [upd EXCEPT ![u].pc = "dup"]
                /\ UNCHANGED configMu
           ELSE /\ upd' = [upd EXCEPT ![u].pc = "done", ![u].ret = "err"]
                /\ configMu' = Unlock(configMu)
    /\ UNCHANGED << ActionOdds, MethodOdds, deterministicHandler, metrics,
                    history, historyIndex, rq, crashed, configs >>
    /\ UNCHANGED << recorded, verbose, tracker >>

\* One counted fill loop over ActionOdds; next is the loop that follows.
\* A panic runs the deferred Unlock and, unrecovered, ends the process.
FillActionLoop(u, at, count, code, next) ==
    /\ ~crashed
    /\ upd[u].pc = at
    /\ LET f == FillRun(ActionOdds, upd[u].n, count, code)
       IN  /\ ActionOdds' = f.table
           /\ IF f.panic
              THEN /\ upd' = [upd EXCEPT ![u].pc = "done", ![u].ret = "panic",
                                         ![u].n = f.n]
                   /\ configMu' = Unlock(configMu)
                   /\ crashed' = TRUE
              ELSE /\ upd' = [upd EXCEPT ![u].pc = next, ![u].n = f.n]
                   /\ UNCHANGED << configMu, crashed >>
    /\ UNCHANGED << MethodOdds, deterministicHandler, metrics, history,
                    historyIndex, rq, configs >>
    /\ UNCHANGED << recorded, verbose, tracker >>

FillDuplicate(u) ==
    FillActionLoop(u, "dup", upd[u].percentDuplicate, StatusConflict, "toomany")

FillTooMany(u) ==
    FillActionLoop(u, "toomany", upd[u].percentTooMany, StatusTooManyRequests,
                   "nonindex")

FillNonIndex(u) ==
    FillActionLoop(u, "nonindex", upd[u].percentNonIndex, StatusNotAcceptable,
                   "restA")

\* The remainder of ActionOdds; then n = 0 for MethodOdds.
FillActionRest(u) ==
    /\ ~crashed
    /\ upd[u].pc = "restA"
    /\ ActionOdds' = FillRest(ActionOdds, upd[u].n)
    /\ upd' = [upd EXCEPT ![u].pc = "toolarge", ![u].n = 0]
    /\ UNCHANGED << MethodOdds, configMu, deterministicHandler, metrics,
                    history, historyIndex, rq, crashed, configs >>
    /\ UNCHANGED << recorded, verbose, tracker >>

FillTooLarge(u) ==
    /\ ~crashed
    /\ upd[u].pc = "toolarge"
    /\ LET f == FillRun(MethodOdds, upd[u].n, upd[u].percentTooLarge,
                        StatusRequestEntityTooLarge)
       IN  /\ MethodOdds' = f.table
           /\ IF f.panic
              THEN /\ upd' = [upd EXCEPT ![u].pc = "done", ![u].ret = "panic",
                                         ![u].n = f.n]
                   /\ configMu' = Unlock(configMu)
                   /\ crashed' = TRUE
              ELSE /\ upd' = [upd EXCEPT ![u].pc = "restM", ![u].n = f.n]
                   /\ UNCHANGED << configMu, crashed >>
    /\ UNCHANGED << ActionOdds, deterministicHandler, metrics, history,
                    historyIndex, rq, configs >>
    /\ UNCHANGED << recorded, verbose, tracker >>

\* The remainder of MethodOdds, return nil, and the deferred Unlock.
FillMethodRest(u) ==
    /\ ~crashed
    /\ upd[u].pc = "restM"
    /\ MethodOdds' = FillRest(MethodOdds, upd[u].n)
    /\ upd' = [upd EXCEPT ![u].pc = "done", ![u].ret = "nil", ![u].n = OddsLen]
    /\ configMu' = Unlock(configMu)
    /\ configs' = configs \cup {<< ActionOdds, MethodOdds' >>}
    /\ UNCHANGED << ActionOdds, deterministicHandler, metrics, history,
                    historyIndex, rq, crashed >>
    /\ UNCHANGED << recorded, verbose, tracker >>

\* UpdateOdds run to completion on given tables: what a constructor's call
\* leaves behind.  "ret" is nil, err or panic.
UpdateOddsResult(A, M, d, t, n, L) ==
    IF ValidateOdds(d, t, n, L) # "ok"
    THEN [A |-> A, M |-> M, ret |-> "err"]
    ELSE LET f1 == FillRun(A, 0, d, StatusConflict)
             f2 == FillRun(f1.table, f1.n, t, StatusTooManyRequests)
             f3 == FillRun(f2.table, f2.n, n, StatusNotAcceptable)
             g1 == FillRun(M, 0, L, StatusRequestEntityTooLarge)
         IN  IF f1.panic THEN [A |-> f1.table, M |-> M, ret |-> "panic"]
             ELSE IF f2.panic THEN [A |-> f2.table, M |-> M, ret |-> "panic"]
             ELSE IF f3.panic THEN [A |-> f3.table, M |-> M, ret |-> "panic"]
             ELSE IF g1.panic
                  THEN [A |-> FillRest(f3.table, f3.n), M |-> g1.table,
                        ret |-> "panic"]
             ELSE [A |-> FillRest(f3.table, f3.n),
                   M |-> FillRest(g1.table, g1.n), ret |-> "nil"]

(***************************************************************************)
(* Lines of a bulk body.  A line is blank, a JSON object given by its      *)
(* members in textual order (key, value), or bytes that are no JSON        *)
(* object.  NoLine is the nil slice.                                       *)
(***************************************************************************)
Blank == [t |-> "blank", members |-> << >>]
Bad == [t |-> "bad", members |-> << >>]
NoLine == [t |-> "nil", members |-> << >>]
Obj(ms) == [t |-> "obj", members |-> ms]

LCreate == Obj(<< <<"create", "m1">> >>)
LIndex == Obj(<< <<"index", "m1">> >>)
LUpdate == Obj(<< <<"update", "m1">> >>)
LDelete == Obj(<< <<"delete", "m1">> >>)
\* A typical document: one field.
LMessage == Obj(<< <<"message", "m1">> >>)
\* Two distinct keys, no key, and the same key twice.
LTwoKeys == Obj(<< <<"message", "m1">>, <<"host", "m1">> >>)
LNoKey == Obj(<< >>)
LSameKey == Obj(<< <<"create", "m1">>, <<"create", "m2">> >>)

Alphabet ==
    { Blank, Bad, LCreate, LIndex, LUpdate, LDelete, LMessage, LTwoKeys,
      LNoKey, LSameKey }

\* len(b) == 0
IsEmpty(b) == b.t \in {"blank", "nil"}

\* json.Unmarshal(b, &j) into map[string]json.RawMessage: the keys of the
\* object, a later member replacing an earlier one of the same key.
UnmarshalKeys(b) == { b.members[i][1] : i \in 1 .. Len(b.members) }

UnmarshalValue(b, k) ==
    LET last == CHOOSE i \in 1 .. Len(b.members) :
                    /\ b.members[i][1] = k
                    /\ \A j \in (i + 1) .. Len(b.members) : b.members[j][1] # k
    IN  b.members[last][2]

NoAction == [Action |-> "", Meta |-> ""]

\* A parseAction without the check of len(j).
parseActionAnyKeys(b) ==
    IF b.t # "obj" \/ b.members = << >>
    THEN [err |-> "unmarshal", action |-> NoAction]
    ELSE [err |-> "none",
          action |-> [Action |-> b.members[1][1], Meta |-> b.members[1][2]]]

\* A parseAction that also rejects a key that is no bulk verb.
parseActionKnownVerbs(b) ==
    IF b.t # "obj" THEN [err |-> "unmarshal", action |-> NoAction]
    ELSE IF Cardinality(UnmarshalKeys(b)) # 1
         THEN [err |-> "keys", action |-> NoAction]
    ELSE LET k == CHOOSE x \in UnmarshalKeys(b) : TRUE
         IN  IF k \notin {"index", "create", "update", "delete"}
             THEN [err |-> "keys", action |-> NoAction]
             ELSE [err |-> "none",
                   action |-> [Action |-> k, Meta |-> UnmarshalValue(b, k)]]

\* parseAction: err is "unmarshal", "keys" or "none".
parseAction(b) ==
    IF b.t # "obj" THEN [err |-> "unmarshal", action |-> NoAction]
    ELSE IF Cardinality(UnmarshalKeys(b)) # 1
         THEN [err |-> "keys", action |-> NoAction]
    ELSE LET k == CHOOSE x \in UnmarshalKeys(b) : TRUE
         IN  [err |-> "none",
              action |-> [Action |-> k, Meta |-> UnmarshalValue(b, k)]]

(***************************************************************************)
(* Counters.                                                               *)
(***************************************************************************)
Counters ==
    { "rootTotalMetrics", "licenseTotalMetrics", "bulkCreateTotalMetrics",
      "bulkCreateDuplicateMetrics", "bulkCreateTooManyMetrics",
      "bulkCreateNonIndexMetrics", "bulkCreateOkMetrics",
      "bulkCreateTooLargeMetrics", "bulkIndexTotalMetrics",
      "bulkUpdateTotalMetrics", "bulkDeleteTotalMetrics" }

NoCounts == [c \in Counters |-> 0]

\* A counter that stops at one.
AddSaturating(m, c) ==
    IF c = "none" \/ m[c] > 0 THEN m ELSE [m EXCEPT ![c] = 1]

\* counter.Add(ctx, 1, attrs); "none" adds nothing.
Add(m, c) == IF c = "none" THEN m ELSE [m EXCEPT ![c] = @ + 1]

\* updateMetrics: the counter it increments and the isErr it returns.
updateMetrics(action, actionStatus) ==
    CASE action = "index" ->
            [counter |-> "bulkIndexTotalMetrics", isErr |-> FALSE]
      [] action = "create" ->
            ( CASE actionStatus = StatusOK ->
                      [counter |-> "bulkCreateOkMetrics", isErr |-> FALSE]
                [] actionStatus = StatusConflict ->
                      [counter |-> "bulkCreateDuplicateMetrics", isErr |-> TRUE]
                [] actionStatus = StatusTooManyRequests ->
                      [counter |-> "bulkCreateTooManyMetrics", isErr |-> TRUE]
                [] actionStatus = StatusNotAcceptable ->
                      [counter |-> "bulkCreateNonIndexMetrics", isErr |-> TRUE]
                [] OTHER -> [counter |-> "none", isErr |-> FALSE] )
      [] action = "update" ->
            [counter |-> "bulkUpdateTotalMetrics", isErr |-> FALSE]
      [] action = "delete" ->
            [counter |-> "bulkDeleteTotalMetrics", isErr |-> FALSE]
      [] OTHER -> [counter |-> "none", isErr |-> FALSE]

(***************************************************************************)
(* Decision functions an embedder may pass to NewDeterministicAPIHandler:  *)
(* pure functions of the action and the document line.                     *)
(***************************************************************************)
DetHandlers == {"byVerb", "byEvent"}

Decide(h, action, event) ==
    IF h = "byVerb"
    THEN ( CASE action.Action = "create" -> StatusConflict
             [] action.Action = "index" -> StatusInternalServerError
             [] action.Action = "update" -> 404
             [] action.Action = "delete" -> StatusTooManyRequests
             [] OTHER -> StatusOK )
    ELSE ( CASE event.t = "nil" -> StatusOK
             [] event.t = "blank" -> 400
             [] action.Meta = "m2" -> StatusNotAcceptable
             [] event = LMessage -> StatusOK
             [] OTHER -> StatusConflict )

(***************************************************************************)
(* History ring.                                                           *)
(***************************************************************************)
MaxHistoryCap == 2

Nil == [Method |-> "", URI |-> "", Body |-> << >>]

\* recordRequest: no-op when cap(h.history) = 0.  The ring is indexed from 0.
\* A recordRequest that leaves the cursor where it is.
recordRequestInPlace(hist, idx, log, rec) ==
    IF Len(hist) = 0
    THEN [history |-> hist, historyIndex |-> idx,
          recorded |-> Append(log, rec)]
    ELSE [history |-> [hist EXCEPT ![idx + 1] = rec],
          historyIndex |-> idx,
          recorded |-> Append(log, rec)]

\* log is the list of the records recordRequest was called with so far.
recordRequest(hist, idx, log, rec) ==
    IF Len(hist) = 0
    THEN [history |-> hist, historyIndex |-> idx,
          recorded |-> Append(log, rec)]
    ELSE [history |-> [hist EXCEPT ![idx + 1] = rec],
          historyIndex |-> (idx + 1) % Len(hist),
          recorded |-> Append(log, rec)]

(***************************************************************************)
(* Serving a request.  rq[r] is the goroutine's frame: the request, the    *)
(* scanner's progress, the locals of Bulk (body, br, methodStatus) and the *)
(* response written so far.  lines, ended, calls, draws, delta and seen    *)
(* record what the goroutine read, called and counted; uri is the request  *)
(* target, early what the logging middleware did before the handler ran,   *)
(* slept whether time.Sleep(h.Delay) has returned, stored the records the  *)
(* request put in the history, mdraws its draws from MethodOdds, pairs the *)
(* actions it processed, each with its document and the number of its      *)
(* line, zr the gzip reader ("none" or "open"), snap the list History      *)
(* encoded or RequestHistory returned, alias whether that list is the ring *)
(* itself, snapLog the records made until then, nth the requests the frame *)
(* served before.                                                          *)
(***************************************************************************)
NoResp == [code |-> 0, kind |-> "none", Errors |-> FALSE, Items |-> << >>]

RqIdle ==
    [ pc |-> "idle", enc |-> "none", lines |-> << >>,
      ended |-> "no", body |-> << >>,
      br |-> [Errors |-> FALSE, Items |-> << >>], resp |-> NoResp,
      methodStatus |-> 0, calls |-> << >>, draws |-> 0, delta |-> NoCounts,
      seen |-> {}, uri |-> "", early |-> "no", slept |-> FALSE,
      stored |-> 0, mdraws |-> 0, pairs |-> << >>, snap |-> << >>,
      snapLog |-> << >>, nth |-> 0, zr |-> "none",
      alias |-> FALSE ]

\* The values h.Odds[rand.Intn(len(h.Odds))] can yield: those of the slots.
Draw(table) == { table[i] : i \in Slots }

\* A handler that routes without sleeping first.
SleepSkipped(q) == q

\* time.Sleep(h.Delay) has returned.
AfterSleep(q) == [q EXCEPT !.slept = TRUE]

\* With -v the handler is called by the logging middleware, after it read
\* the body.
Called(q) == q.pc = "idle" /\ (verbose => q.early = "read")

\* ServeHTTP: after time.Sleep(h.Delay) the product header is set and a
\* POST /_bulk is routed to Bulk.
ServeHTTP(r, S) ==
    /\ ~crashed
    /\ Called(rq[r])
    /\ \E e \in S.encs :
          rq' = [rq EXCEPT ![r] =
                    [AfterSleep(@) EXCEPT !.pc = "rlock", !.enc = e,
                                          !.uri = "/_bulk"]]
    /\ UNCHANGED << ActionOdds, MethodOdds, configMu, deterministicHandler,
                    metrics, history, historyIndex, upd, crashed, configs >>
    /\ UNCHANGED << recorded, verbose, tracker >>

\* h.configMu.RLock()
BulkRLock(r) ==
    /\ ~crashed
    /\ rq[r].pc = "rlock"
    /\ CanRLock(configMu)
    /\ configMu' = RLock(configMu, r)
    /\ rq' = [rq EXCEPT ![r].pc = "draw"]
    /\ UNCHANGED << ActionOdds, MethodOdds, deterministicHandler, metrics,
                    history, historyIndex, upd, crashed, configs >>
    /\ UNCHANGED << recorded, verbose, tracker >>

\* A check that never takes the too-large branch.
IsTooLargeNever(methodStatus) == FALSE

\* methodStatus == http.StatusRequestEntityTooLarge
IsTooLarge(methodStatus) == methodStatus = StatusRequestEntityTooLarge

\* w.WriteHeader(code) and the body written, if any.
Written(code, kind, br) ==
    [code |-> code, kind |-> kind, Errors |-> br.Errors, Items |-> br.Items]

\* A return that sends no status when none was written.
ReturnAsWritten(q, resp) == [q EXCEPT !.pc = "done", !.resp = resp]

\* The handler returns: the deferred RUnlock runs; a response whose header
\* was never written goes out as 200.
Return(q, resp) ==
    [q EXCEPT !.pc = "done",
              !.resp = IF resp.code = 0 THEN [resp EXCEPT !.code = StatusOK]
                       ELSE resp]

\* bulk.create.total, then the request-level draw from MethodOdds.
BulkMethodDraw(r) ==
    /\ ~crashed
    /\ rq[r].pc = "draw"
    /\ \E methodStatus \in Draw(MethodOdds) :
          LET q == [rq[r] EXCEPT
                       !.methodStatus = methodStatus,
                       !.mdraws = @ + 1,
                       !.seen = @ \cup {<< ActionOdds, MethodOdds >>},
                       !.delta = Add(@, "bulkCreateTotalMetrics")]
              m == Add(metrics, "bulkCreateTotalMetrics")
          IN  IF IsTooLarge(methodStatus)
              THEN /\ metrics' = Add(m, "bulkCreateTooLargeMetrics")
                   /\ rq' = [rq EXCEPT ![r] =
                               Return([q EXCEPT !.delta =
                                           Add(@, "bulkCreateTooLargeMetrics")],
                                      Written(methodStatus, "empty",
                                              [Errors |-> FALSE,
                                               Items |-> << >>]))]
                   /\ configMu' = RUnlock(configMu, r)
              ELSE /\ metrics' = m
                   /\ rq' = [rq EXCEPT ![r] = [q EXCEPT !.pc = "open"]]
                   /\ UNCHANGED configMu
    /\ UNCHANGED << ActionOdds, MethodOdds, deterministicHandler, history,
                    historyIndex, upd, crashed, configs >>
    /\ UNCHANGED << recorded, verbose, tracker >>

\* zr, err := gzip.NewReader(r.Body) with err == nil: the reader is open.
\* Bulk has no zr.Close().
NewReader(q) == IF q.enc = "gzip" THEN [q EXCEPT !.zr = "open"] ELSE q

\* The scanner is set up; gzip.NewReader may reject the header, and Bulk
\* then logs and returns without writing anything.
BulkOpen(r) ==
    /\ ~crashed
    /\ rq[r].pc = "open"
    /\ \E headerOk \in BOOLEAN :
          IF rq[r].enc = "gzip" /\ ~headerOk
          THEN /\ rq' = [rq EXCEPT ![r] =
                            Return([@ EXCEPT !.ended = "err"],
                                   [NoResp EXCEPT !.kind = "empty"])]
               /\ configMu' = RUnlock(configMu, r)
          ELSE /\ rq' = [rq EXCEPT ![r] = [NewReader(@) EXCEPT !.pc = "scan"]]
               /\ UNCHANGED configMu
    /\ UNCHANGED << ActionOdds, MethodOdds, deterministicHandler, metrics,
                    history, historyIndex, upd, crashed, configs >>
    /\ UNCHANGED << recorded, verbose, tracker >>

\* scanner.Scan(): the next line, or FALSE at the end of the stream or on a
\* read error; once it returned FALSE it keeps doing so.
\* S is the stream the client sends: its lines, how it can end and its
\* length at most.
ScanOutcomes(q, S) ==
    IF q.ended # "no" THEN {[ok |-> FALSE, why |-> q.ended, line |-> NoLine]}
    ELSE {[ok |-> FALSE, why |-> w, line |-> NoLine] : w \in S.ends}
         \cup ( IF Len(q.lines) < S.max
                THEN {[ok |-> TRUE, why |-> "no", line |-> l] : l \in S.lines}
                ELSE {} )

\* body = append(body, b...): a blank line adds no byte.
AppendBytes(body, b) == IF IsEmpty(b) THEN body ELSE Append(body, b)

\* The frame after a Scan that returned o.
Scanned(q, o) ==
    IF o.ok
    THEN [q EXCEPT !.lines = Append(@, o.line),
                   !.body = AppendBytes(@, o.line)]
    ELSE [q EXCEPT !.ended = o.why]

\* Every action, delete too, takes the next line as its document.
HasDocumentAlways(action) == TRUE

\* action.Action != "delete": the action is followed by a document.
HasDocument(action) == action.Action # "delete"

\* Draws for index actions as well, and for delete actions as well.
DrawsOddsIndexToo(action) == action.Action \in {"create", "index"}

DrawsOddsDeleteToo(action) == action.Action \in {"create", "delete"}

\* The probabilistic handler draws for this action.
DrawsOdds(action) == action.Action = "create"

\* item = map[string]any{action.Action: map[string]any{"status": actionStatus}}
\* "at" is the number of the action line in the body.
Item(action, actionStatus, at) ==
    [verb |-> action.Action, status |-> actionStatus, at |-> at]

\* The new item put in front of the others.
PrependItem(items, item) == << item >> \o items

\* br.Items = append(br.Items, item)
AppendItem(items, item) == Append(items, item)

\* br.Errors = br.Errors || isErr
OrErrors(errors, isErr) == errors \/ isErr

\* The rest of one loop iteration once the action, its document b and its
\* status are known: updateMetrics, br.Errors and br.Items.
Account(q, action, actionStatus, hasItem, at) ==
    LET um == updateMetrics(action.Action, actionStatus)
    IN  [q EXCEPT !.delta = Add(@, um.counter),
                  !.br = [Errors |-> OrErrors(@.Errors, um.isErr),
                          Items |-> IF hasItem
                                    THEN AppendItem(@.Items,
                                             Item(action, actionStatus, at))
                                    ELSE @.Items]]

\* One iteration of for scanner.Scan() { ... }.
BulkScan(r, S) ==
    /\ ~crashed
    /\ rq[r].pc = "scan"
    /\ \E o1 \in ScanOutcomes(rq[r], S) :
          LET q1 == Scanned(rq[r], o1)
              p == parseAction(o1.line)
          IN  IF ~o1.ok
              THEN /\ rq' = [rq EXCEPT ![r] = [q1 EXCEPT !.pc = "finish"]]
                   /\ UNCHANGED << metrics, configMu >>
              ELSE IF IsEmpty(o1.line)
              THEN /\ rq' = [rq EXCEPT ![r] = q1]
                   /\ UNCHANGED << metrics, configMu >>
              ELSE IF p.err # "none"
              THEN /\ rq' = [rq EXCEPT ![r] =
                               Return(q1, Written(StatusInternalServerError,
                                                  "diag",
                                                  [Errors |-> FALSE,
                                                   Items |-> << >>]))]
                   /\ configMu' = RUnlock(configMu, r)
                   /\ UNCHANGED metrics
              ELSE \E o2 \in IF HasDocument(p.action)
                             THEN ScanOutcomes(q1, S)
                             ELSE {[ok |-> FALSE, why |-> "no",
                                    line |-> NoLine]} :
                   LET b == o2.line
                       q2 == [(IF HasDocument(p.action) THEN Scanned(q1, o2)
                               ELSE q1)
                                 EXCEPT !.pairs =
                                    Append(@, << p.action, b,
                                                 Len(q1.lines) >>)]
                       at == Len(q1.lines)
                   IN  /\ UNCHANGED configMu
                       /\ IF deterministicHandler # "nil"
                          THEN LET st == Decide(deterministicHandler,
                                                p.action, b)
                                   q3 == [q2 EXCEPT !.calls =
                                             Append(@, << p.action, b >>)]
                               IN  /\ rq' = [rq EXCEPT ![r] =
                                        Account(q3, p.action, st, TRUE, at)]
                                   /\ metrics' = Add(metrics,
                                        updateMetrics(p.action.Action,
                                                      st).counter)
                          ELSE IF DrawsOdds(p.action)
                          THEN \E st \in Draw(ActionOdds) :
                                 LET q3 == [q2 EXCEPT
                                              !.draws = @ + 1,
                                              !.seen = @ \cup
                                                {<< ActionOdds, MethodOdds >>}]
                                 IN  /\ rq' = [rq EXCEPT ![r] =
                                          Account(q3, p.action, st, TRUE, at)]
                                     /\ metrics' = Add(metrics,
                                          updateMetrics(p.action.Action,
                                                        st).counter)
                          ELSE /\ rq' = [rq EXCEPT ![r] =
                                    Account(q2, p.action, 0, FALSE, at)]
                               /\ metrics' = Add(metrics,
                                    updateMetrics(p.action.Action, 0).counter)
    /\ UNCHANGED << ActionOdds, MethodOdds, deterministicHandler, history,
                    historyIndex, upd, crashed, configs >>
    /\ UNCHANGED << recorded, verbose, tracker >>

\* After the loop: recordRequest, json.Marshal(br) (which cannot fail for a
\* bool and maps of ints), the Content-Type header and the body.
BulkFinish(r) ==
    /\ ~crashed
    /\ rq[r].pc = "finish"
    /\ LET h == recordRequest(history, historyIndex, recorded,
                    [Method |-> "POST", URI |-> "/_bulk",
                     Body |-> rq[r].body])
       IN  /\ history' = h.history
           /\ historyIndex' = h.historyIndex
           /\ recorded' = h.recorded
    /\ rq' = [rq EXCEPT ![r] =
                 Return([@ EXCEPT !.stored = Len(recorded') - Len(recorded)],
                        Written(0, "bulk", rq[r].br))]
    /\ configMu' = RUnlock(configMu, r)
    /\ UNCHANGED << ActionOdds, MethodOdds, deterministicHandler, metrics,
                    upd, crashed, configs >>
    /\ UNCHANGED << verbose, tracker >>

(***************************************************************************)
(* The other routes of ServeHTTP, and the logging middleware of main.go.   *)
(***************************************************************************)
\* Request targets of GET requests and the handler each is routed to by its
\* path.
Targets ==
    { [uri |-> "/", route |-> "root"],
      [uri |-> "/?pretty", route |-> "root"],
      [uri |-> "/_license", route |-> "license"],
      [uri |-> "/_history", route |-> "history"],
      [uri |-> "/_cat", route |-> "default"] }

\* loggingMiddleware: io.ReadAll(r.Body), which may fail and then answers
\* 500 without calling the handler; else the request is logged and handed
\* to next.ServeHTTP.
LoggingMiddleware(r) ==
    /\ ~crashed
    /\ verbose
    /\ rq[r].pc = "idle"
    /\ rq[r].early = "no"
    /\ \E readOk \in BOOLEAN :
          rq' = [rq EXCEPT ![r] =
                    IF readOk THEN [@ EXCEPT !.early = "read"]
                    ELSE Return([@ EXCEPT !.early = "failed"],
                                Written(StatusInternalServerError, "readerror",
                                        [Errors |-> FALSE, Items |-> << >>]))]
    /\ UNCHANGED << ActionOdds, MethodOdds, configMu, deterministicHandler,
                    metrics, history, historyIndex, upd, crashed, configs >>
    /\ UNCHANGED << recorded, verbose, tracker >>

\* ServeHTTP for a GET request: after time.Sleep(h.Delay) the product header
\* is set and the request is routed by its path.
ServeGet(r) ==
    /\ ~crashed
    /\ Called(rq[r])
    /\ \E t \in Targets :
          rq' = [rq EXCEPT ![r] =
                    [AfterSleep(@) EXCEPT !.pc = t.route, !.uri = t.uri]]
    /\ UNCHANGED << ActionOdds, MethodOdds, configMu, deterministicHandler,
                    metrics, history, historyIndex, upd, crashed, configs >>
    /\ UNCHANGED << recorded, verbose, tracker >>

\* Root and License: recordRequest(r, nil), the counter, the body.
Info(r, route, counter) ==
    /\ ~crashed
    /\ rq[r].pc = route
    /\ LET h == recordRequest(history, historyIndex, recorded,
                    [Method |-> "GET", URI |-> rq[r].uri, Body |-> << >>])
       IN  /\ history' = h.history
           /\ historyIndex' = h.historyIndex
           /\ recorded' = h.recorded
    /\ metrics' = Add(metrics, counter)
    /\ rq' = [rq EXCEPT ![r] =
                 Return([@ EXCEPT !.stored = Len(recorded') - Len(recorded),
                                  !.delta = Add(@, counter)],
                        Written(0, route,
                                [Errors |-> FALSE, Items |-> << >>]))]
    /\ UNCHANGED << ActionOdds, MethodOdds, configMu, deterministicHandler,
                    upd, crashed, configs >>
    /\ UNCHANGED << verbose, tracker >>

Root(r) == Info(r, "root", "rootTotalMetrics")

License(r) == Info(r, "license", "licenseTotalMetrics")

\* The populated slots as History collects them: for _, v := range h.history.
NonNil(hist) == SelectSeq(hist, LAMBDA v : v # Nil)

\* History: 200, then under historyMu the populated slots are encoded.
History(r) ==
    /\ ~crashed
    /\ rq[r].pc = "history"
    /\ rq' = [rq EXCEPT ![r] =
                 Return([@ EXCEPT !.snap = NonNil(history),
                                  !.snapLog = recorded],
                        Written(StatusOK, "history",
                                [Errors |-> FALSE, Items |-> << >>]))]
    /\ UNCHANGED << ActionOdds, MethodOdds, configMu, deterministicHandler,
                    metrics, history, historyIndex, upd, crashed, configs >>
    /\ UNCHANGED << recorded, verbose, tracker >>

\* RequestHistory, called by the program that embeds the handler: under
\* historyMu it returns h.history, the ring itself, empty slots included.
\* snap is what the list read as when it was returned.
RequestHistory(r) ==
    /\ ~crashed
    /\ rq[r].pc = "idle"
    /\ rq[r].early = "no"
    /\ rq' = [rq EXCEPT ![r] = [@ EXCEPT !.pc = "done", !.alias = TRUE,
                                         !.snap = history,
                                         !.snapLog = recorded]]
    /\ UNCHANGED << ActionOdds, MethodOdds, configMu, deterministicHandler,
                    metrics, history, historyIndex, upd, crashed, configs >>
    /\ UNCHANGED << recorded, verbose, tracker >>

\* default: the tagline.
Default(r) ==
    /\ ~crashed
    /\ rq[r].pc = "default"
    /\ rq' = [rq EXCEPT ![r] =
                 Return(@, Written(0, "tagline",
                                   [Errors |-> FALSE, Items |-> << >>]))]
    /\ UNCHANGED << ActionOdds, MethodOdds, configMu, deterministicHandler,
                    metrics, history, historyIndex, upd, crashed, configs >>
    /\ UNCHANGED << recorded, verbose, tracker >>

\* Requests one connection sends after its first.
MaxFollowing == 1

\* The response is out; the next request of the connection arrives.
NextRequest(r) ==
    /\ ~crashed
    /\ rq[r].pc = "done"
    /\ rq[r].nth < MaxFollowing
    /\ rq' = [rq EXCEPT ![r] = [RqIdle EXCEPT !.nth = rq[r].nth + 1]]
    /\ UNCHANGED << ActionOdds, MethodOdds, configMu, deterministicHandler,
                    metrics, history, historyIndex, upd, crashed, configs >>
    /\ UNCHANGED << recorded, verbose, tracker >>

(***************************************************************************)
(* UserAgentTracker.  The three maps are objects on the heap, held by      *)
(* reference; a map is a function from the keys present to their counts.   *)
(***************************************************************************)
\* Goroutines calling the tracker, one call each.
NumTrackerCalls == 3

Trackers == 1 .. NumTrackerCalls

Agents == {"beat", "curl"}

Endpoints == {"root", "license", "bulk"}

EmptyMap == [a \in {} |-> 0]

\* m[agent]++ : a key not present reads as 0.
Increment(m, agent) ==
    [a \in DOMAIN m \cup {agent} |->
        IF a = agent THEN (IF agent \in DOMAIN m THEN m[agent] ELSE 0) + 1
        ELSE m[a]]

TrIdle ==
    [ pc |-> "idle", op |-> "", agent |-> "",
      ret |-> [license |-> 0, root |-> 0, bulk |-> 0],
      got |-> [license |-> EmptyMap, root |-> EmptyMap, bulk |-> EmptyMap],
      after |-> {} ]

\* NewUserAgentTracker: three empty maps.
NewUserAgentTracker ==
    /\ lock = MuFree
    /\ heap = << EmptyMap, EmptyMap, EmptyMap >>
    /\ userAgentsSeen = [root |-> 1, license |-> 2, bulk |-> 3]
    /\ tr = [t \in Trackers |-> TrIdle]

\* A goroutine calls RootSeen, LicenseSeen or BulkSeen with an agent.
SeenCall(t) ==
    /\ tr[t].pc = "idle"
    /\ \E e \in Endpoints, a \in Agents :
          tr' = [tr EXCEPT ![t].pc = "lock", ![t].op = e, ![t].agent = a]
    /\ UNCHANGED << lock, userAgentsSeen, heap >>
    /\ UNCHANGED handler

\* uat.lock.Lock(): the writer announces itself, then waits for the readers.
SeenLock(t) ==
    /\ tr[t].pc = "lock"
    /\ CanAnnounce(lock)
    /\ lock' = Announce(lock, t)
    /\ tr' = [tr EXCEPT ![t].pc = "wait"]
    /\ UNCHANGED << userAgentsSeen, heap >>
    /\ UNCHANGED handler

SeenAcquire(t) ==
    /\ tr[t].pc = "wait"
    /\ CanLock(lock, t)
    /\ lock' = Lock(lock, t)
    /\ tr' = [tr EXCEPT ![t].pc = "held"]
    /\ UNCHANGED << userAgentsSeen, heap >>
    /\ UNCHANGED handler

\* uat.userAgentsSeen.<endpoint>[agent]++ and the deferred Unlock.
SeenIncrement(t) ==
    /\ tr[t].pc = "held"
    /\ heap' = [heap EXCEPT ![userAgentsSeen[tr[t].op]] =
                   Increment(@, tr[t].agent)]
    /\ lock' = Unlock(lock)
    /\ tr' = [tr EXCEPT ![t].pc = "done"]
    /\ UNCHANGED userAgentsSeen
    /\ UNCHANGED handler

\* A goroutine calls Get.
GetCall(t) ==
    /\ tr[t].pc = "idle"
    /\ tr' = [tr EXCEPT ![t].pc = "rlock", ![t].op = "Get"]
    /\ UNCHANGED << lock, userAgentsSeen, heap >>
    /\ UNCHANGED handler

\* uat.lock.RLock()
GetRLock(t) ==
    /\ tr[t].pc = "rlock"
    /\ CanRLock(lock)
    /\ lock' = RLock(lock, t)
    /\ tr' = [tr EXCEPT ![t].pc = "clone"]
    /\ UNCHANGED << userAgentsSeen, heap >>
    /\ UNCHANGED handler

\* A Clone that hands out the map itself.
CloneShares(h, ref) == [heap |-> h, ref |-> ref]

\* maps.Clone: a new map with the same keys and values.
Clone(h, ref) == [heap |-> Append(h, h[ref]), ref |-> Len(h) + 1]

\* The three clones in the order Get makes them, the return and the deferred
\* RUnlock.  got is what the caller read in the maps on return, after the
\* Seen calls that had returned by then.
GetClone(t) ==
    /\ tr[t].pc = "clone"
    /\ LET c1 == Clone(heap, userAgentsSeen.license)
           c2 == Clone(c1.heap, userAgentsSeen.root)
           c3 == Clone(c2.heap, userAgentsSeen.bulk)
       IN  /\ heap' = c3.heap
           /\ tr' = [tr EXCEPT
                        ![t].pc = "done",
                        ![t].ret = [license |-> c1.ref, root |-> c2.ref,
                                    bulk |-> c3.ref],
                        ![t].got = [license |-> c3.heap[c1.ref],
                                    root |-> c3.heap[c2.ref],
                                    bulk |-> c3.heap[c3.ref]],
                        ![t].after = { x \in Trackers :
                                          /\ tr[x].pc = "done"
                                          /\ tr[x].op \in Endpoints }]
    /\ lock' = RUnlock(lock, t)
    /\ UNCHANGED userAgentsSeen
    /\ UNCHANGED handler

(***************************************************************************)
(* Construction.                                                           *)
(***************************************************************************)
\* Percentages NewAPIHandler is constructed with.
InitOdds ==
    { << 0, 0, 0, 0 >>, << 40, 30, 20, 50 >>, << 0, 0, 0, 100 >>,
      << 100, 0, 0, 0 >> }

\* newAPIHandler: history = make([]*RequestRecord, historyCap).
InitCommon(Caps) ==
    /\ configMu = MuFree
    /\ metrics = NoCounts
    /\ \E c \in Caps : history = [i \in 1 .. c |-> Nil]
    /\ historyIndex = 0
    /\ recorded = << >>
    /\ NewUserAgentTracker
    /\ upd = [u \in Updaters |-> UpdIdle]
    /\ rq = [r \in Requests |-> RqIdle]
    /\ crashed = FALSE

\* NewAPIHandler: newAPIHandler, then UpdateOdds, which must not fail.
NewAPIHandler(Odds, Caps) ==
    /\ InitCommon(Caps)
    /\ deterministicHandler = "nil"
    /\ \E o \in Odds :
          LET res == UpdateOddsResult(ZeroTable, ZeroTable, Uint(o[1]),
                                      Uint(o[2]), Uint(o[3]), Uint(o[4]))
          IN  /\ res.ret = "nil"
              /\ ActionOdds = res.A
              /\ MethodOdds = res.M
              /\ configs = {<< res.A, res.M >>}

\* NewDeterministicAPIHandler: newAPIHandler, then the decision function;
\* UpdateOdds is not called and both tables keep their zero value.
NewDeterministicAPIHandler(Caps) ==
    /\ InitCommon(Caps)
    /\ deterministicHandler \in DetHandlers
    /\ ActionOdds = ZeroTable
    /\ MethodOdds = ZeroTable
    /\ configs = {}

(***************************************************************************)
(* Specifications.                                                         *)
(***************************************************************************)
\* Arguments of UpdateOdds calls made while requests are served.
ServingArgs ==
    { << Uint(50), Uint(50), Uint(0), Uint(0) >>,
      << Uint(0), Uint(0), Uint(0), Uint(100) >>,
      << Uint(60), Uint(60), Uint(0), Uint(0) >>,
      << MaxUint, Uint(0), Uint(0), Uint(0) >> }

\* Streams sent while UpdateOdds is called, and every stream of the alphabet.
ServingStream ==
    [encs |-> {"none"}, lines |-> {LCreate, Bad}, ends |-> {"eof"},
     max |-> MaxServingLines]

AnyStream ==
    [encs |-> {"none", "gzip"}, lines |-> Alphabet, ends |-> {"eof", "err"},
     max |-> MaxLines]

UpdateOddsSteps(u) ==
    \/ UpdateOddsLock(u)
    \/ UpdateOddsAcquire(u)
    \/ UpdateOddsCheck(u)
    \/ FillDuplicate(u)
    \/ FillTooMany(u)
    \/ FillNonIndex(u)
    \/ FillActionRest(u)
    \/ FillTooLarge(u)
    \/ FillMethodRest(u)

BulkSteps(r, S) ==
    \/ ServeHTTP(r, S)
    \/ BulkRLock(r)
    \/ BulkMethodDraw(r)
    \/ BulkOpen(r)
    \/ BulkScan(r, S)
    \/ BulkFinish(r)

\* Requests served concurrently with UpdateOdds calls.
Init ==
    /\ verbose = FALSE
    /\ \/ NewAPIHandler(InitOdds, {0})
       \/ NewDeterministicAPIHandler({0})

Next ==
    \/ \E u \in Updaters : UpdateOddsCall(u, ServingArgs) \/ UpdateOddsSteps(u)
    \/ \E r \in Requests : BulkSteps(r, ServingStream)

Spec == Init /\ [][Next]_vars

\* The same under fair scheduling: a goroutine that can take a step of its
\* call or request eventually takes one.  Bodies end: a stream has at most
\* MaxServingLines lines.
Fairness ==
    /\ \A u \in Updaters : WF_vars(UpdateOddsSteps(u))
    /\ \A r \in Requests : WF_vars(BulkSteps(r, ServingStream))

SpecLive == Init /\ [][Next]_vars /\ Fairness

\* UpdateOdds alone, over machine-word arguments.
Percents == {Uint(0), Uint(30), Uint(40), MaxUint}
TooLarges == {Uint(0), Uint(50), Uint(100), Uint(101), TopBit}

NextOdds ==
    \E u \in Updaters :
        \/ UpdateOddsCall(u, Percents \X Percents \X Percents \X TooLarges)
        \/ UpdateOddsSteps(u)

\* Tables of every kind to start from: all zero, the default, and tables
\* with no slot at 200.
InitAlone ==
    /\ verbose = FALSE
    /\ \/ NewAPIHandler({<< 0, 0, 0, 0 >>, << 60, 40, 0, 100 >>}, {0})
       \/ NewDeterministicAPIHandler({0})

SpecOdds == InitAlone /\ [][NextOdds]_vars

\* Requests of every route, with and without the logging middleware, on
\* rings of every capacity up to MaxHistoryCap.
InitServe ==
    /\ verbose \in BOOLEAN
    /\ NewAPIHandler({<< 0, 0, 0, 0 >>}, 0 .. MaxHistoryCap)

NextServe ==
    \E r \in Requests :
        \/ LoggingMiddleware(r)
        \/ ServeGet(r)
        \/ Root(r)
        \/ License(r)
        \/ History(r)
        \/ RequestHistory(r)
        \/ Default(r)
        \/ NextRequest(r)
        \/ BulkSteps(r, ServingStream)

SpecServe == InitServe /\ [][NextServe]_vars

\* A handler constructed with all four percentages at 0, the default of the
\* command line.
InitDefault ==
    /\ verbose = FALSE
    /\ NewAPIHandler({<< 0, 0, 0, 0 >>}, {0, MaxHistoryCap})

\* Goroutines calling one UserAgentTracker concurrently.
NextTracker ==
    \E t \in Trackers :
        \/ SeenCall(t)
        \/ SeenLock(t)
        \/ SeenAcquire(t)
        \/ SeenIncrement(t)
        \/ GetCall(t)
        \/ GetRLock(t)
        \/ GetClone(t)

SpecTracker == InitDefault /\ [][NextTracker]_vars

\* One goroutine serving bulk requests, over every body of the alphabet.
InitBulk ==
    /\ verbose = FALSE
    /\ \/ NewAPIHandler(InitOdds, {0, MaxHistoryCap})
       \/ NewDeterministicAPIHandler({0, MaxHistoryCap})

NextBulk == BulkSteps(1, AnyStream)

SpecBulk == InitBulk /\ [][NextBulk]_vars

\* One bulk request of every body on the default handler.
SpecDefault == InitDefault /\ [][NextBulk]_vars

\* Bodies with blank lines, sent by two requests to compare.
BlankStream ==
    [encs |-> {"none"}, lines |-> {LIndex, LMessage, Blank}, ends |-> {"eof"},
     max |-> MaxLines]

NextBlank == \E r \in Requests : BulkSteps(r, BlankStream)

SpecBlank == Init /\ [][NextBlank]_vars

(***************************************************************************)
(* Properties of UpdateOdds (SpecOdds).                                    *)
(***************************************************************************)
\* The percentages as numbers: d + t + n <= 100 and L <= 100.
PercentagesValid(a) ==
    /\ IsSmall(a.percentDuplicate) /\ IsSmall(a.percentTooMany)
    /\ IsSmall(a.percentNonIndex) /\ IsSmall(a.percentTooLarge)
    /\ a.percentDuplicate[1] + a.percentTooMany[1] + a.percentNonIndex[1]
          <= 100
    /\ a.percentTooLarge[1] <= 100

ExpectedActionOdds(d, t, n) ==
    [i \in 0 .. 99 |->
        IF i < d THEN 409
        ELSE IF i < d + t THEN 429
        ELSE IF i < d + t + n THEN 406
        ELSE 200]

ExpectedMethodOdds(L) == [i \in 0 .. 99 |-> IF i < L THEN 413 ELSE 200]

Returned(u) == upd[u].pc = "done"

\* C1: a call with d + t + n <= 100 and L <= 100 succeeds, only such a call
\* succeeds, and when it has returned ActionOdds holds 409 in [0,d), 429 in
\* [d,d+t), 406 in [d+t,d+t+n) and 200 in the rest, and MethodOdds holds 413
\* in [0,L) and 200 in [L,100), whatever the tables held before.
C1_UpdateOddsFillsTables ==
    \A u \in Updaters :
        Returned(u) =>
            /\ PercentagesValid(upd[u]) <=> upd[u].ret = "nil"
            /\ upd[u].ret = "nil" =>
                  /\ ActionOdds =
                        ExpectedActionOdds(upd[u].percentDuplicate[1],
                                           upd[u].percentTooMany[1],
                                           upd[u].percentNonIndex[1])
                  /\ MethodOdds = ExpectedMethodOdds(upd[u].percentTooLarge[1])

\* A successful call with all four regions of ActionOdds and both regions of
\* MethodOdds non-empty, made on tables an earlier call had filled otherwise.
C1_Witness ==
    \E u \in Updaters :
        /\ Returned(u) /\ upd[u].ret = "nil"
        /\ upd[u].percentDuplicate = Uint(30)
        /\ upd[u].percentTooMany = Uint(30)
        /\ upd[u].percentNonIndex = Uint(30)
        /\ upd[u].percentTooLarge = Uint(50)
        /\ upd[u].before[1][0] = 409 /\ upd[u].before[1][99] = 429
        /\ upd[u].before[2][99] = 413
        /\ ActionOdds[99] = 200 /\ MethodOdds[99] = 200

\* C2: a call with d + t + n > 100 or L > 100 returns an error and leaves
\* ActionOdds and MethodOdds as they were before the call.
C2_InvalidOddsRejectedUnchanged ==
    \A u \in Updaters :
        (Returned(u) /\ ~PercentagesValid(upd[u])) =>
            /\ upd[u].ret = "err"
            /\ << ActionOdds, MethodOdds >> = upd[u].before

(***************************************************************************)
(* Properties of requests served while UpdateOdds is called (Spec).        *)
(***************************************************************************)
Done(r) == rq[r].pc = "done"

KeysOf(line) == { line.members[j][1] : j \in 1 .. Len(line.members) }

\* Not a JSON object, or an object whose number of keys is not one.
Malformed(line) == line.t # "obj" \/ Cardinality(KeysOf(line)) # 1

VerbOf(line) == CHOOSE k \in KeysOf(line) : TRUE

\* The actions of a body from line i on, each with its verb, its document
\* (NoLine for delete or when no line follows) and the number of its line;
\* bad is the number of the first malformed line in action position, or 0.
RECURSIVE ParseFrom(_, _)
ParseFrom(lines, i) ==
    IF i > Len(lines) THEN [acts |-> << >>, bad |-> 0]
    ELSE IF lines[i].t = "blank" THEN ParseFrom(lines, i + 1)
    ELSE IF Malformed(lines[i]) THEN [acts |-> << >>, bad |-> i]
    ELSE LET verb == VerbOf(lines[i])
             hasDoc == verb # "delete" /\ i < Len(lines)
             rest == ParseFrom(lines, IF hasDoc THEN i + 2 ELSE i + 1)
         IN  [acts |-> << [verb |-> verb, at |-> i,
                           doc |-> IF hasDoc THEN lines[i + 1] ELSE NoLine] >>
                       \o rest.acts,
              bad |-> rest.bad]

Parsed(r) == ParseFrom(rq[r].lines, 1)

\* The request ran to the end of its body and sent the aggregate.
Completed(r) == Done(r) /\ rq[r].resp.kind = "bulk"

Deterministic == deterministicHandler # "nil"

PerActionCounters ==
    { "bulkIndexTotalMetrics", "bulkUpdateTotalMetrics",
      "bulkDeleteTotalMetrics", "bulkCreateOkMetrics",
      "bulkCreateDuplicateMetrics", "bulkCreateTooManyMetrics",
      "bulkCreateNonIndexMetrics" }

\* C4: once the request-level draw yielded 413 the request has ended with
\* status 413 and an empty body, no line read, no per-action counter
\* incremented, no draw from ActionOdds and no call of the decision
\* function; and with MethodOdds all 413 the draw yields 413.
C4_TooLargeShortCircuits ==
    \A r \in Requests :
        /\ (rq[r].pc \notin {"idle", "rlock", "draw"} /\ rq[r].methodStatus = 413)
              => /\ Done(r)
                 /\ rq[r].resp.code = 413
                 /\ rq[r].resp.kind = "empty"
                 /\ rq[r].resp.Items = << >>
                 /\ rq[r].lines = << >>
                 /\ rq[r].calls = << >>
                 /\ rq[r].draws = 0
                 /\ \A c \in PerActionCounters : rq[r].delta[c] = 0
        /\ ( /\ rq[r].pc \notin {"idle", "rlock", "draw"}
             /\ \A tb \in rq[r].seen : tb[2] = ExpectedMethodOdds(100) )
              => rq[r].methodStatus = 413

\* A too-large answer on a handler that has a decision function.
C4_Witness ==
    \E r \in Requests :
        Done(r) /\ rq[r].resp.code = 413 /\ Deterministic

\* C5: in deterministic mode a completed request has called the decision
\* function once per action of the body, in order, with the action and its
\* document, and item i of the response is the verb of action i with the
\* status the function returned for it; the response is a function of the
\* body.
C5_DeterministicItems ==
    \A r \in Requests :
        (Completed(r) /\ Deterministic) =>
            LET acts == Parsed(r).acts
                items == rq[r].resp.Items
            IN  /\ Len(rq[r].calls) = Len(acts)
                /\ Len(items) = Len(acts)
                /\ \A i \in 1 .. Len(acts) :
                      /\ rq[r].calls[i][1].Action = acts[i].verb
                      /\ rq[r].calls[i][2] = acts[i].doc
                      /\ items[i].verb = acts[i].verb
                      /\ items[i].status =
                            Decide(deterministicHandler, rq[r].calls[i][1],
                                   acts[i].doc)
                /\ rq[r].resp.Errors =
                      \E i \in 1 .. Len(acts) :
                          updateMetrics(acts[i].verb, items[i].status).isErr

\* An index with its document followed by a delete, in deterministic mode.
C5_Witness ==
    \E r \in Requests :
        /\ Completed(r) /\ Deterministic
        /\ rq[r].lines = << LIndex, LMessage, LDelete >>
        /\ Len(rq[r].resp.Items) = 2

\* The actions of the body that yield an item: all of them with a decision
\* function, the create actions without.
Yielding(r) ==
    LET acts == Parsed(r).acts
    IN  { i \in 1 .. Len(acts) : Deterministic \/ acts[i].verb = "create" }

\* C6: the items of a completed request are in the order of the action lines
\* they come from, one item for each action that yields one.
C6_ItemsInInputOrder ==
    \A r \in Requests :
        Completed(r) =>
            LET acts == Parsed(r).acts
                items == rq[r].resp.Items
            IN  /\ \A i \in 1 .. Len(items) :
                      /\ items[i].at \in 1 .. Len(rq[r].lines)
                      /\ ~Malformed(rq[r].lines[items[i].at])
                      /\ items[i].verb = VerbOf(rq[r].lines[items[i].at])
                /\ \A i, j \in 1 .. Len(items) :
                      i < j => items[i].at < items[j].at
                /\ { items[i].at : i \in 1 .. Len(items) } =
                      { acts[i].at : i \in Yielding(r) }

\* Two create actions with different drawn statuses.
C6_Witness ==
    \E r \in Requests :
        /\ Completed(r) /\ ~Deterministic
        /\ rq[r].lines = << LCreate, LMessage, LCreate >>
        /\ Len(rq[r].resp.Items) = 2
        /\ rq[r].resp.Items[1].status = 409
        /\ rq[r].resp.Items[2].status = 200

\* C7 as stated: the number of items of a completed request is the number of
\* actions parsed from the body.
C7_ItemCountIsActionCount ==
    \A r \in Requests :
        Completed(r) => Len(rq[r].resp.Items) = Len(Parsed(r).acts)

\* C7 amended: with a decision function the number of items is the number
\* of actions parsed; without one it is the number of create actions parsed.
C7_ItemCountIsYieldingCount ==
    \A r \in Requests :
        Completed(r) =>
            /\ Len(rq[r].resp.Items) = Cardinality(Yielding(r))
            /\ Deterministic => Len(rq[r].resp.Items) = Len(Parsed(r).acts)

\* Without a decision function: an index, its document and a create.
C7_Witness ==
    \E r \in Requests :
        /\ Completed(r) /\ ~Deterministic
        /\ rq[r].lines = << LIndex, LMessage, LCreate >>
        /\ Len(rq[r].resp.Items) = 1

NonSuccess(status) == status < 200 \/ status >= 300

\* C8: errors of a completed request is true iff some action of it was
\* assigned a non-success status.
C8_ErrorsIffNonSuccess ==
    \A r \in Requests :
        Completed(r) =>
            ( rq[r].resp.Errors <=>
                \E i \in 1 .. Len(rq[r].resp.Items) :
                    NonSuccess(rq[r].resp.Items[i].status) )

\* C9: while every action read so far is a delete, nothing was drawn from
\* ActionOdds and errors is false, and so it is in the response.
C9_DeleteOnlyNoDrawNoErrors ==
    \A r \in Requests :
        LET p == Parsed(r)
        IN  (p.bad = 0 /\ \A i \in 1 .. Len(p.acts) : p.acts[i].verb = "delete")
               => /\ rq[r].draws = 0
                  /\ ~rq[r].br.Errors
                  /\ Completed(r) => ~rq[r].resp.Errors

\* Two deletes answered while ActionOdds holds error statuses.
C9_Witness ==
    \E r \in Requests :
        /\ Completed(r) /\ ~Deterministic
        /\ rq[r].lines = << LDelete, Blank, LDelete >>
        /\ ActionOdds[0] = 409
        /\ rq[r].delta["bulkDeleteTotalMetrics"] = 2

\* C10: a malformed line in action position ends the request at once with
\* status 500 and the diagnostic body: no later line is read, no aggregate
\* is sent, the read lock is released and the process lives on; and 500 is
\* answered for nothing else.
C10_MalformedActionAborts ==
    \A r \in Requests :
        LET p == Parsed(r)
        IN  /\ p.bad > 0 =>
                  /\ Done(r)
                  /\ rq[r].resp.code = 500
                  /\ rq[r].resp.kind = "diag"
                  /\ rq[r].resp.Items = << >>
                  /\ Len(rq[r].lines) = p.bad
                  /\ r \notin configMu.readers
                  /\ CanRLock(configMu)
                  /\ ~crashed
            /\ rq[r].resp.code = 500 => p.bad > 0

\* An abort after one action was processed.
C10_Witness ==
    \E r \in Requests :
        /\ Done(r) /\ rq[r].resp.code = 500
        /\ rq[r].lines = << LCreate, LMessage, LTwoKeys >>

\* The counter an action counts on: the total of its verb for index, update
\* and delete, the counter of its status for create, none otherwise.
CounterOf(verb, status) ==
    CASE verb = "index" -> "bulkIndexTotalMetrics"
      [] verb = "update" -> "bulkUpdateTotalMetrics"
      [] verb = "delete" -> "bulkDeleteTotalMetrics"
      [] verb = "create" /\ status = 200 -> "bulkCreateOkMetrics"
      [] verb = "create" /\ status = 409 -> "bulkCreateDuplicateMetrics"
      [] verb = "create" /\ status = 429 -> "bulkCreateTooManyMetrics"
      [] verb = "create" /\ status = 406 -> "bulkCreateNonIndexMetrics"
      [] OTHER -> "none"

\* The status given to the action read at line n, 0 if it was given none.
StatusAt(r, n) ==
    LET items == rq[r].br.Items
    IN  IF \E i \in 1 .. Len(items) : items[i].at = n
        THEN items[CHOOSE i \in 1 .. Len(items) : items[i].at = n].status
        ELSE 0

\* C11: after an abort on a malformed action line the counters are those
\* before the request (all zero here), plus the request-level total, plus
\* one increment for each action processed before that line.
C11_AbortKeepsCounters ==
    \A r \in Requests :
        (Done(r) /\ rq[r].resp.code = 500) =>
            LET acts == Parsed(r).acts
            IN  \A c \in Counters :
                    metrics[c] =
                        (IF c = "bulkCreateTotalMetrics" THEN 1 ELSE 0)
                        + Cardinality({ i \in 1 .. Len(acts) :
                              CounterOf(acts[i].verb,
                                        StatusAt(r, acts[i].at)) = c })

\* An abort after two deletes were counted.
C11_Witness ==
    \E r \in Requests :
        /\ Done(r) /\ rq[r].resp.code = 500
        /\ rq[r].lines = << LDelete, LDelete, Bad >>
        /\ metrics["bulkDeleteTotalMetrics"] = 2


(***************************************************************************)
(* Properties of the history ring (SpecServe).                             *)
(***************************************************************************)
Min(a, b) == IF a < b THEN a ELSE b

\* The last n elements of a sequence, in their order.
Last(seq, n) == SubSeq(seq, Len(seq) - n + 1, Len(seq))

Occurrences(seq, x) == Cardinality({ i \in 1 .. Len(seq) : seq[i] = x })

\* Two sequences with the same elements, each as often.
SameElements(s1, s2) ==
    /\ Len(s1) = Len(s2)
    /\ \A i \in 1 .. Len(s1) : Occurrences(s1, s1[i]) = Occurrences(s2, s1[i])

\* C12: a ring of capacity N holds, after k calls of recordRequest, exactly
\* the last min(k, N) records, whatever their slots; with N = 0 it holds
\* nothing and every snapshot is empty.
C12_RingHoldsLastRecords ==
    LET N == Len(history)
        k == Len(recorded)
    IN  /\ SameElements(NonNil(history), Last(recorded, Min(k, N)))
        /\ N = 0 => \A r \in Requests : rq[r].snap = << >>

\* Three records on a ring of two slots.
C12_Witness ==
    /\ Len(history) = 2
    /\ Len(recorded) = 3
    /\ recorded[1] # recorded[2]
    /\ recorded[2] # recorded[3]
    /\ recorded[1] # recorded[3]

\* C13: the list GET /_history encodes is the last min(k, N) records in the
\* order they were recorded, the oldest first.
C13_SnapshotInWriteOrder ==
    \A r \in Requests :
        (Done(r) /\ rq[r].resp.kind = "history") =>
            rq[r].snap =
                Last(rq[r].snapLog, Min(Len(rq[r].snapLog), Len(history)))


\* C14 (SpecDefault): on a handler constructed with the four percentages at
\* 0 no bulk request is answered 413, every create action gets status 200,
\* no error counter moves and errors is never true.
C14_DefaultAllSucceed ==
    \A r \in Requests :
        /\ rq[r].methodStatus # 413
        /\ rq[r].resp.code # 413
        /\ \A i \in 1 .. Len(rq[r].br.Items) :
              rq[r].br.Items[i].verb = "create"
                 => rq[r].br.Items[i].status = 200
        /\ ~rq[r].br.Errors
        /\ ~rq[r].resp.Errors
        /\ \A c \in { "bulkCreateTooLargeMetrics", "bulkCreateDuplicateMetrics",
                      "bulkCreateTooManyMetrics", "bulkCreateNonIndexMetrics" } :
              metrics[c] = 0

\* Two create actions answered.
C14_Witness ==
    \E r \in Requests :
        /\ Completed(r)
        /\ rq[r].lines = << LCreate, LMessage, LCreate >>
        /\ Len(rq[r].resp.Items) = 2
        /\ metrics["bulkCreateOkMetrics"] = 2


(***************************************************************************)
(* Properties of the UserAgentTracker (SpecTracker).                       *)
(***************************************************************************)
\* The count a map holds for an agent: 0 for a key that is not present.
CountIn(m, a) == IF a \in DOMAIN m THEN m[a] ELSE 0

\* The calls among the goroutines T made for endpoint e with agent a.
CallsOf(T, e, a) == { x \in T : tr[x].op = e /\ tr[x].agent = a }

\* The maps count exactly the calls of T.
Counts(ms, T) ==
    \A e \in Endpoints :
        /\ DOMAIN ms[e] = { a \in Agents : CallsOf(T, e, a) # {} }
        /\ \A a \in Agents : CountIn(ms[e], a) = Cardinality(CallsOf(T, e, a))

SeenReturned == { x \in Trackers : tr[x].pc = "done" /\ tr[x].op \in Endpoints }

\* C15: under every interleaving the tracker's maps count the Seen calls
\* that have returned, a Get returns maps counting the calls that had
\* returned when it read them (an endpoint never called has an empty map),
\* and the maps it returned are maps of their own, which still read the
\* same after later calls.
C15_TrackerCountsAndCopies ==
    /\ Counts([e \in Endpoints |-> heap[userAgentsSeen[e]]], SeenReturned)
    /\ \A t \in Trackers :
          (tr[t].pc = "done" /\ tr[t].op = "Get") =>
              /\ Counts(tr[t].got, tr[t].after)
              /\ \A e \in Endpoints :
                    /\ heap[tr[t].ret[e]] = tr[t].got[e]
                    /\ \A f \in Endpoints : tr[t].ret[e] # userAgentsSeen[f]

\* A Get that returned a count of one for an agent counted twice since, on
\* an endpoint, and an empty map for another endpoint.
C15_Witness ==
    \E t \in Trackers :
        /\ tr[t].pc = "done" /\ tr[t].op = "Get"
        /\ CountIn(tr[t].got.root, "beat") = 1
        /\ CountIn(heap[userAgentsSeen.root], "beat") = 2
        /\ tr[t].got.license = EmptyMap


\* C16 (Spec): a Bulk request held at RLock is held by a writer that has the
\* lock, never by one that still waits for other Bulk requests to finish.
C16_BulkNeverWaitsForBulk ==
    \A r \in Requests :
        (rq[r].pc = "rlock" /\ ~CanRLock(configMu)) => configMu.readers = {}


\* C17 as stated (SpecServe): until time.Sleep(h.Delay) has returned a
\* request has incremented no counter, put no record in the history,
\* written no response and had none of its body read.
C17_DelayBeforeAnyEffect ==
    \A r \in Requests :
        ~rq[r].slept =>
            /\ rq[r].delta = NoCounts
            /\ rq[r].stored = 0
            /\ rq[r].resp = NoResp
            /\ rq[r].lines = << >>
            /\ rq[r].early = "no"

\* C17 amended: until the delay has ended the handler has incremented no
\* counter, recorded nothing, written nothing and read no line; only with
\* -v has the logging middleware already read the body, and answered 500
\* itself if that read failed.
C17_DelayBeforeHandlerEffects ==
    \A r \in Requests :
        ~rq[r].slept =>
            /\ rq[r].delta = NoCounts
            /\ rq[r].stored = 0
            /\ rq[r].lines = << >>
            /\ rq[r].early # "no" => verbose
            /\ rq[r].resp # NoResp =>
                  /\ rq[r].early = "failed"
                  /\ rq[r].resp.code = 500
                  /\ rq[r].resp.kind = "readerror"

\* A request logged by the middleware, delayed, recorded and counted.
C17_Witness ==
    \E r \in Requests :
        /\ Done(r) /\ rq[r].slept /\ verbose
        /\ rq[r].early = "read"
        /\ rq[r].stored = 1
        /\ rq[r].delta["rootTotalMetrics"] = 1


\* C18 (SpecBulk): a gzip body that fails to decompress, at its header or
\* part-way, ends the request without an aggregate response for the actions
\* decoded before the failure.
C18_GzipFailureSendsNoAggregate ==
    \A r \in Requests :
        (Done(r) /\ rq[r].enc = "gzip" /\ rq[r].ended = "err") =>
            /\ rq[r].resp.Items = << >>
            /\ Parsed(r).acts # << >> => rq[r].resp.kind # "bulk"


\* C19 (SpecBulk): without a decision function a request has drawn from
\* MethodOdds once, as soon as it is past the request-level draw, and from
\* ActionOdds once for each create action it processed and for no other.
C19_DrawsPerRequestAndCreate ==
    \A r \in Requests :
        ~Deterministic =>
            LET acts == Parsed(r).acts
            IN  /\ rq[r].mdraws =
                      IF rq[r].pc \in {"idle", "rlock", "draw"} THEN 0 ELSE 1
                /\ rq[r].draws =
                      Cardinality({ i \in 1 .. Len(acts) :
                                       acts[i].verb = "create" })

\* A create and an index answered with one draw from each table.
C19_Witness ==
    \E r \in Requests :
        /\ Completed(r) /\ ~Deterministic
        /\ rq[r].lines = << LCreate, LMessage, LIndex >>
        /\ rq[r].draws = 1
        /\ rq[r].mdraws = 1


\* A body without its blank lines.
NoBlanks(lines) == SelectSeq(lines, LAMBDA l : l.t # "blank")

\* The same actions with the same documents, an empty document being the
\* same whether it is an empty line or no line.
SamePairs(p1, p2) ==
    /\ Len(p1) = Len(p2)
    /\ \A i \in 1 .. Len(p1) :
          /\ p1[i][1] = p2[i][1]
          /\ \/ p1[i][2] = p2[i][2]
             \/ IsEmpty(p1[i][2]) /\ IsEmpty(p2[i][2])

\* C20 (SpecBlank): of two requests answered, one with the body of the other
\* less its blank lines, the same actions were processed with the same
\* documents.
C20_BlankLinesKeepAlignment ==
    \A r1, r2 \in Requests :
        ( /\ Completed(r1) /\ Completed(r2)
          /\ rq[r2].lines = NoBlanks(rq[r1].lines) )
            => SamePairs(rq[r1].pairs, rq[r2].pairs)


\* C21 (SpecBulk): the line after an action that is not a delete, if there
\* is one, is that action's document and is not parsed as an action; a
\* delete takes no line; and the next line parsed as an action, the one an
\* abort stopped at included, is the first non-blank line after those.
C21_DocumentLineFollowsAction ==
    \A r \in Requests :
        LET ps == rq[r].pairs
            ls == rq[r].lines
        IN  \A i \in 1 .. Len(ps) :
                LET at == ps[i][3]
                    verb == ps[i][1].Action
                    used == IF verb # "delete" /\ at < Len(ls) THEN at + 1
                            ELSE at
                    nextAt == IF i < Len(ps) THEN ps[i + 1][3]
                              ELSE IF rq[r].resp.code = 500 THEN Len(ls)
                              ELSE 0
                IN  /\ at \in 1 .. Len(ls)
                    /\ verb = VerbOf(ls[at])
                    /\ (verb # "delete" /\ at < Len(ls)) => ps[i][2] = ls[at + 1]
                    /\ (verb # "delete" /\ at = Len(ls)) => ps[i][2] = NoLine
                    /\ verb = "delete" => ps[i][2] = NoLine
                    /\ nextAt # 0 =>
                          /\ nextAt > used
                          /\ ls[nextAt].t # "blank"
                          /\ \A j \in (used + 1) .. (nextAt - 1) :
                                ls[j].t = "blank"
                    /\ nextAt = 0 =>
                          \A j \in (used + 1) .. Len(ls) : ls[j].t = "blank"

\* A delete directly followed by an index whose document reads like an
\* action line.
C21_Witness ==
    \E r \in Requests :
        /\ Completed(r)
        /\ rq[r].lines = << LDelete, LIndex, LCreate >>
        /\ Len(rq[r].pairs) = 2
        /\ rq[r].pairs[2][2] = LCreate


CountedVerbs == {"index", "create", "update", "delete"}

\* C22 (SpecBulk): each action of a counted verb that a request processed
\* has incremented one counter, once: the total of its verb for index,
\* update and delete, the counter of its status for create.
C22_EveryActionCountedOnce ==
    \A r \in Requests :
        LET ps == rq[r].pairs
            counter(i) == CounterOf(ps[i][1].Action, StatusAt(r, ps[i][3]))
        IN  /\ \A c \in PerActionCounters :
                  rq[r].delta[c] =
                      Cardinality({ i \in 1 .. Len(ps) : counter(i) = c })
            /\ \A i \in 1 .. Len(ps) :
                  ps[i][1].Action \in CountedVerbs => counter(i) # "none"


\* C23 (SpecBulk): a request past the request-level check whose body came to
\* its end is answered 200 with the aggregate built, whatever the statuses
\* of its items; 413 is answered for the request-level draw only, 500 for a
\* malformed action line only, and no other status is answered.
C23_TransportStatus ==
    \A r \in Requests :
        Done(r) =>
            /\ rq[r].resp.code \in {200, 413, 500}
            /\ rq[r].resp.code = 413 <=> rq[r].methodStatus = 413
            /\ rq[r].resp.code = 500 <=> Parsed(r).bad > 0
            /\ ( /\ rq[r].methodStatus # 413
                 /\ rq[r].ended = "eof"
                 /\ Parsed(r).bad = 0 )
                  => /\ rq[r].resp.code = 200
                     /\ rq[r].resp.kind = "bulk"
                     /\ rq[r].resp.Items = rq[r].br.Items
                     /\ rq[r].resp.Errors = rq[r].br.Errors

\* 200 with an item of status 409.
C23_Witness ==
    \E r \in Requests :
        /\ Completed(r)
        /\ rq[r].ended = "eof"
        /\ rq[r].resp.code = 200
        /\ rq[r].resp.Errors
        /\ rq[r].resp.Items = << [verb |-> "create", status |-> 409, at |-> 1] >>


\* The request ended, or had to end, without an aggregate: it drew 413, its
\* gzip body failed to decompress, or it met a malformed action line.
Aborted(r) ==
    \/ rq[r].methodStatus = 413
    \/ rq[r].enc = "gzip" /\ rq[r].ended = "err"
    \/ Parsed(r).bad > 0

\* C24 (SpecBulk): a bulk request puts a record in the history only at the
\* end of its body, and the record holds the body read; an aborted request
\* has recorded nothing, so no record holds the part of a body read before
\* an abort.
C24_RecordOnlyAtEndOfBody ==
    \A r \in Requests :
        /\ rq[r].stored > 0 =>
              /\ rq[r].ended # "no"
              /\ recorded[Len(recorded)].Body = rq[r].body
        /\ Aborted(r) => rq[r].stored = 0


\* C25 (SpecBulk): when the handler has returned, the gzip reader it opened
\* for the request, if any, is closed.
C25_GzipReaderReleased ==
    \A r \in Requests : Done(r) => rq[r].zr # "open"


\* The list a caller of History or RequestHistory holds, as it reads now.
Held(r) == IF rq[r].alias THEN history ELSE rq[r].snap

HasSnapshot(r) ==
    Done(r) /\ (rq[r].alias \/ rq[r].resp.kind = "history")

\* C26 (SpecServe): the list History or RequestHistory returned reads as it
\* did when it was returned, whatever was recorded since, and has no empty
\* slot.
C26_SnapshotIsACopy ==
    \A r \in Requests :
        HasSnapshot(r) =>
            /\ Held(r) = rq[r].snap
            /\ \A i \in 1 .. Len(Held(r)) : Held(r)[i] # Nil


\* C27 (SpecOdds): a call whose percentages, as numbers, have d + t + n > 100
\* or L > 100 never gets past the validation: it returns the error, and no
\* fill loop runs past the last slot.
C27_ValidationNeverPassesWrapped ==
    /\ \A u \in Updaters :
          ~PercentagesValid(upd[u]) =>
              /\ upd[u].pc \in {"idle", "lock", "wait", "check", "done"}
              /\ Returned(u) => upd[u].ret = "err"
    /\ ~crashed


\* C28 (SpecLive): every UpdateOdds call that was made returns and every
\* Bulk request that arrived completes, and once all have, configMu is free.
C28_CallsAndRequestsTerminate ==
    /\ \A u \in Updaters : [](upd[u].pc # "idle" => <>Returned(u))
    /\ \A r \in Requests : [](rq[r].pc # "idle" => <>Done(r))
    /\ []( ( /\ \A u \in Updaters : upd[u].pc \in {"idle", "done"}
             /\ \A r \in Requests : rq[r].pc \in {"idle", "done"} )
           => configMu = MuFree )


PopulatedSlots == { i \in 1 .. Len(history) : history[i] # Nil }

\* C29 (SpecServe): on a ring of capacity N > 0 the cursor stays within
\* 0 .. N - 1, the populated slots number min(records made, N), and a
\* populated slot is never empty again.
C29_RingInvariant ==
    /\ [](Len(history) > 0 =>
             /\ historyIndex \in 0 .. (Len(history) - 1)
             /\ Cardinality(PopulatedSlots) = Min(Len(recorded), Len(history)))
    /\ [][\A i \in 1 .. Len(history) :
             history[i] # Nil => history'[i] # Nil]_vars

\* The cursor after it wrapped: three records on two slots.
C29_Witness ==
    /\ Len(history) = 2
    /\ Len(recorded) = 3
    /\ historyIndex = 1
    /\ Cardinality(PopulatedSlots) = 2


\* C30 (SpecBulk): a line with one key that is no bulk verb is taken as an
\* action: a request is aborted only at a line that has not exactly one key,
\* and the step that takes such an action leaves the request running, takes
\* the following line (when there is one) as its document, leaves every
\* counter and errors as they were and, on the probabilistic handler, adds
\* no item.
C30_UnknownVerbAccepted ==
    [][\A r \in Requests :
          LET q == rq[r]
              n == rq'[r]
              p == n.pairs[Len(n.pairs)]
          IN  /\ (q.pc = "scan" /\ n.resp.code = StatusInternalServerError)
                    => Malformed(n.lines[Len(n.lines)])
              /\ ( /\ Len(n.pairs) = Len(q.pairs) + 1
                   /\ p[1].Action \notin CountedVerbs )
                    => LET at == p[3]
                       IN  /\ n.pc = "scan"
                           /\ n.resp = q.resp
                           /\ n.lines[at].t = "obj"
                           /\ KeysOf(n.lines[at]) = {p[1].Action}
                           /\ \/ /\ Len(n.lines) = at + 1
                                 /\ p[2] = n.lines[at + 1]
                              \/ /\ Len(n.lines) = at
                                 /\ n.ended # "no"
                                 /\ p[2] = NoLine
                           /\ n.delta = q.delta
                           /\ metrics' = metrics
                           /\ n.br.Errors = q.br.Errors
                           /\ ~Deterministic => n.br.Items = q.br.Items]_vars

\* A probabilistic request whose only action has the key "message" and took
\* a line that reads like a create as its document.
C30_Witness ==
    \E r \in Requests :
        /\ ~Deterministic
        /\ Completed(r)
        /\ rq[r].lines = << LMessage, LCreate >>
        /\ Len(rq[r].pairs) = 1
        /\ rq[r].pairs[1][1].Action = "message"
        /\ rq[r].pairs[1][2] = LCreate
        /\ rq[r].br = [Errors |-> FALSE, Items |-> << >>]
        /\ \A c \in PerActionCounters : rq[r].delta[c] = 0

====
